---- MODULE Spec2Model ----
(***************************************************************************)
(* Model of the ccparser library: the CCParser constructor and its         *)
(* tokenizer (parser.py), the Luhn validator (validator.py) and the issuer *)
(* classifier (utils.py).                                                  *)
(*                                                                         *)
(* A Python str is a sequence of one-character strings; None is the        *)
(* one-element sequence <<"None">>, which is no str of characters.         *)
(***************************************************************************)
EXTENDS Integers, Sequences, FiniteSets, TLC

VARIABLES pc, card_string, tokens, self, raised, call, arg, ret, today

vars == <<pc, card_string, tokens, self, raised, call, arg, ret, today>>

None == <<"None">>

\* the current date (year, month, day) is read by the expiry check only
NoDate == <<0, 0, 0>>

(***************************************************************************)
(* Characters and the str methods the code uses.                           *)
(***************************************************************************)
Digits == {"0", "1", "2", "3", "4", "5", "6", "7", "8", "9"}

Whitespace == {" ", "\t", "\n"}

DigitVal(c) ==
    CASE c = "0" -> 0 [] c = "1" -> 1 [] c = "2" -> 2 [] c = "3" -> 3
      [] c = "4" -> 4 [] c = "5" -> 5 [] c = "6" -> 6 [] c = "7" -> 7
      [] c = "8" -> 8 [] c = "9" -> 9

DigitChar(n) ==
    CASE n = 0 -> "0" [] n = 1 -> "1" [] n = 2 -> "2" [] n = 3 -> "3"
      [] n = 4 -> "4" [] n = 5 -> "5" [] n = 6 -> "6" [] n = 7 -> "7"
      [] n = 8 -> "8" [] n = 9 -> "9"

\* str.isdigit(): non-empty and every character a digit
isdigit(s) == Len(s) > 0 /\ \A i \in 1..Len(s) : s[i] \in Digits

\* the truth value of a str or None: `not x` is ~Truthy(x)
Truthy(x) == x # None /\ Len(x) > 0

RECURSIVE lstrip(_)
lstrip(s) ==
    IF Len(s) > 0 /\ s[1] \in Whitespace THEN lstrip(Tail(s)) ELSE s

RECURSIVE rstrip(_)
rstrip(s) ==
    IF Len(s) > 0 /\ s[Len(s)] \in Whitespace
    THEN rstrip(SubSeq(s, 1, Len(s) - 1)) ELSE s

\* str.strip()
strip(s) == rstrip(lstrip(s))

\* `c in s`
Contains(s, c) == \E i \in 1..Len(s) : s[i] = c

\* str.split(sep) for a one-character sep: empty pieces are kept
RECURSIVE str_split_from(_, _, _, _, _)
str_split_from(s, sep, i, cur, acc) ==
    IF i > Len(s) THEN Append(acc, cur)
    ELSE IF s[i] = sep
         THEN str_split_from(s, sep, i + 1, <<>>, Append(acc, cur))
         ELSE str_split_from(s, sep, i + 1, Append(cur, s[i]), acc)

str_split(s, sep) == str_split_from(s, sep, 1, <<>>, <<>>)

\* the character class [|: ] of the delimiter pattern
IsDelimNoSpace(c) == c \in {"|", ":"}

IsDelim(c) == c \in {"|", ":", " "}

\* re.split(r"[|: ]+", s): a maximal run of delimiters is one split point;
\* a leading or trailing run leaves an empty piece at that end
RECURSIVE re_split_from(_, _, _, _)
re_split_from(s, i, cur, acc) ==
    IF i > Len(s) THEN Append(acc, cur)
    ELSE IF IsDelim(s[i])
         THEN IF i > 1 /\ IsDelim(s[i - 1])
              THEN re_split_from(s, i + 1, cur, acc)
              ELSE re_split_from(s, i + 1, <<>>, Append(acc, cur))
         ELSE re_split_from(s, i + 1, Append(cur, s[i]), acc)

re_split(s) == re_split_from(s, 1, <<>>, <<>>)

\* parts = [p for p in re.split(delimiters, card_string) if p]
Parts(s) == SelectSeq(re_split(s), LAMBDA p : Len(p) > 0)

(***************************************************************************)
(* int(str): surrounding whitespace is dropped, one sign is allowed, and   *)
(* the rest is digits with single underscores between digits.              *)
(***************************************************************************)
IntBody(s) ==
    /\ Len(s) > 0
    /\ \A i \in 1..Len(s) : s[i] \in Digits \cup {"_"}
    /\ s[1] # "_" /\ s[Len(s)] # "_"
    /\ \A i \in 1..(Len(s) - 1) : ~(s[i] = "_" /\ s[i + 1] = "_")

RECURSIVE IntValue(_, _)
IntValue(s, acc) ==
    IF Len(s) = 0 THEN acc
    ELSE IF s[1] = "_" THEN IntValue(Tail(s), acc)
         ELSE IntValue(Tail(s), 10 * acc + DigitVal(s[1]))

PyInt(s) ==
    LET t == strip(s)
        signed == Len(t) > 0 /\ t[1] \in {"+", "-"}
        body == IF signed THEN Tail(t) ELSE t
    IN  IF IntBody(body)
        THEN [ok |-> TRUE,
              val |-> IF signed /\ t[1] = "-"
                      THEN 0 - IntValue(body, 0) ELSE IntValue(body, 0)]
        ELSE [ok |-> FALSE, val |-> 0]

RECURSIVE Decimal(_)
Decimal(n) ==
    IF n < 10 THEN <<DigitChar(n)>>
    ELSE Append(Decimal(n \div 10), DigitChar(n % 10))

\* f"{n:02d}" for n >= 0
Format02d(n) == IF n < 10 THEN <<"0">> \o Decimal(n) ELSE Decimal(n)

(***************************************************************************)
(* CCParser._parse_card_string and CCParser.__init__.                      *)
(* An outcome is a record: ok with the four fields, or the exception       *)
(* raised (its class and the fixed part of its message).                   *)
(***************************************************************************)
NoFields == <<<<>>, <<>>, <<>>, <<>>>>

Return(f) == [ok |-> TRUE, exc |-> "", msg |-> "", f |-> f]

Raise(exc, msg) == [ok |-> FALSE, exc |-> exc, msg |-> msg, f |-> NoFields]

MsgEmpty == "Card string cannot be empty"

MsgFormat == "Invalid card string format"

MsgExpiryFormat == "Invalid expiry date format"

MsgMonthRange == "Invalid month: must be 01-12"

MsgMonthNumeric == "Invalid month: must be numeric"

MsgYear == "Invalid year: use YY or YYYY format"

MsgNumberDigits == "Card number must contain only digits"

MsgCvvDigits == "CVV must contain only digits"

\* the expiry token of the three-token form, split at '/' or else at '-'
SplitExpiry(expiry) ==
    IF Contains(expiry, "/") THEN [ok |-> TRUE, parts |-> str_split(expiry, "/")]
    ELSE IF Contains(expiry, "-") THEN [ok |-> TRUE, parts |-> str_split(expiry, "-")]
    ELSE [ok |-> FALSE, parts |-> <<>>]

\* the raw (card_number, expiry_month, expiry_year, cvv) of the token list
RawFields(parts) ==
    IF Len(parts) = 3
    THEN LET e == SplitExpiry(parts[2])
         IN  IF ~e.ok THEN Raise("InvalidExpiryDateError", MsgExpiryFormat)
             ELSE IF Len(e.parts) # 2
                  THEN Raise("InvalidExpiryDateError", MsgExpiryFormat)
                  ELSE Return(<<parts[1], e.parts[1], e.parts[2], parts[3]>>)
    ELSE IF Len(parts) = 4
         THEN Return(<<parts[1], parts[2], parts[3], parts[4]>>)
         ELSE Raise("InvalidCardNumberError", MsgFormat)

MonthOutOfRangeOff(month_int) == month_int < 0 \/ month_int > 12

MonthOutOfRange(month_int) == month_int < 1 \/ month_int > 12

\* "Validate and normalize month"
NormalizeMonth(expiry_month) ==
    LET m == PyInt(expiry_month)
    IN  IF ~m.ok THEN Raise("InvalidExpiryDateError", MsgMonthNumeric)
        ELSE IF MonthOutOfRange(m.val)
             THEN Raise("InvalidExpiryDateError", MsgMonthRange)
             ELSE Return(Format02d(m.val))

NormalizeYearAnyLength(expiry_year) ==
    IF Len(expiry_year) = 2 THEN Return(<<"2", "0">> \o expiry_year)
    ELSE Return(expiry_year)

\* "Normalize year to 4 digits"
NormalizeYear(expiry_year) ==
    IF Len(expiry_year) = 2 THEN Return(<<"2", "0">> \o expiry_year)
    ELSE IF Len(expiry_year) # 4
         THEN Raise("InvalidExpiryDateError", MsgYear)
         ELSE Return(expiry_year)

\* the digit checks of number and CVV made before the expiry checks
_parse_card_string_digits_first(s) ==
    LET raw == RawFields(Parts(s))
    IN  IF ~raw.ok THEN raw
        ELSE IF ~isdigit(raw.f[1])
             THEN Raise("InvalidCardNumberError", MsgNumberDigits)
        ELSE IF ~isdigit(raw.f[4])
             THEN Raise("InvalidCVVError", MsgCvvDigits)
        ELSE LET m == NormalizeMonth(raw.f[2])
             IN  IF ~m.ok THEN m
                 ELSE LET y == NormalizeYear(raw.f[3])
                      IN  IF ~y.ok THEN y
                          ELSE Return(<<raw.f[1], m.f, y.f, raw.f[4]>>)

_parse_card_string(s) ==
    LET raw == RawFields(Parts(s))
    IN  IF ~raw.ok THEN raw
        ELSE LET m == NormalizeMonth(raw.f[2])
             IN  IF ~m.ok THEN m
                 ELSE LET y == NormalizeYear(raw.f[3])
                      IN  IF ~y.ok THEN y
                          ELSE IF ~isdigit(raw.f[1])
                               THEN Raise("InvalidCardNumberError", MsgNumberDigits)
                               ELSE IF ~isdigit(raw.f[4])
                                    THEN Raise("InvalidCVVError", MsgCvvDigits)
                                    ELSE Return(<<raw.f[1], m.f, y.f, raw.f[4]>>)

\* CCParser(card_string): the outcome of the constructor
CCParserInit(s) ==
    IF ~Truthy(s) THEN Raise("InvalidCardNumberError", MsgEmpty)
    ELSE _parse_card_string(strip(s))

(***************************************************************************)
(* The inputs of the constructor.  An input is assembled from pieces:      *)
(* lead number d1 month d2 year d3 cvv trail, as the parser tests write    *)
(* them; `tokens` records the pieces, `card_string` is the text handed to  *)
(* CCParser.                                                               *)
(***************************************************************************)
MaxRun == 2

MaxBlank == 2

DelimChars == {"|", ":", " "}

SeqsUpTo(S, n) == UNION {[1..k -> S] : k \in 0..n}

\* the delimiter runs: one or more of '|', ':' and space
Runs == SeqsUpTo(DelimChars, MaxRun) \ {<<>>}

SubSeps == {<<"/">>, <<"-">>}

NumberToks == {<<"4", "1", "1", "1">>, <<"4", "1", "a", "1">>}

MonthToks ==
    {<<"1">>, <<"0", "1">>, <<"0", "0", "1">>, <<"1", "2">>, <<"1", "3">>,
     <<"0", "0">>, <<"a", "b">>, <<"+", "5">>, <<"1", "_", "2">>, <<>>}

YearToks ==
    {<<"3", "0">>, <<"2", "0", "3", "0">>, <<"5">>, <<"2", "0", "3">>,
     <<"2", "0", "3", "0", "1">>, <<"a", "b">>, <<"a", "b", "c", "d">>, <<>>}

CvvToks == {<<"1", "2", "3">>, <<"1", "2", "a">>, <<>>}

Draw(lead, n, d1, m, d2, y, d3, c, trail) ==
    [absent |-> FALSE, lead |-> lead, number |-> n, d1 |-> d1, month |-> m,
     d2 |-> d2, year |-> y, d3 |-> d3, cvv |-> c, trail |-> trail]

\* every token, well-formed or not, in the plain layouts
TokenDraws ==
    {Draw(<<>>, n, <<"|">>, m, d2, y, <<"|">>, c, <<>>) :
        n \in NumberToks, m \in MonthToks, y \in YearToks, c \in CvvToks,
        d2 \in {<<"|">>, <<" ">>, <<"/">>, <<"-">>, <<>>}}

Pads == {<<<<>>, <<>>>>, <<<<" ">>, <<" ">>>>, <<<<"\t">>, <<"\n">>>>}

\* well-formed tokens in every layout of delimiter runs
LayoutDraws ==
    {Draw(p[1], <<"4", "1", "1", "1">>, d1, my[1], d2, my[2],
          IF same THEN d1 ELSE <<"|">>, <<"1", "2", "3">>, p[2]) :
        p \in Pads, d1 \in Runs, d2 \in Runs \cup SubSeps, same \in BOOLEAN,
        my \in {<<<<"1">>, <<"3", "0">>>>,
                <<<<"0", "0", "1">>, <<"2", "0", "3", "0">>>>}}

\* the empty string and the strings of whitespace only
BlankDraws ==
    {Draw(w, <<>>, <<>>, <<>>, <<>>, <<>>, <<>>, <<>>, <<>>) :
        w \in SeqsUpTo(Whitespace, MaxBlank)}

AbsentDraw == [Draw(<<>>, <<>>, <<>>, <<>>, <<>>, <<>>, <<>>, <<>>, <<>>)
                  EXCEPT !.absent = TRUE]

Draws == TokenDraws \cup LayoutDraws \cup BlankDraws \cup {AbsentDraw}

Render(t) ==
    IF t.absent THEN None
    ELSE t.lead \o t.number \o t.d1 \o t.month \o t.d2 \o t.year \o t.d3
         \o t.cvv \o t.trail

(***************************************************************************)
(* The CCParser object and its accessors.                                  *)
(***************************************************************************)
NoSelf ==
    [card_string |-> <<>>, card_number |-> <<>>, expiry_month |-> <<>>,
     expiry_year |-> <<>>, cvv |-> <<>>]

NoExc == [exc |-> "", msg |-> ""]

InitParse ==
    /\ pc = "start"
    /\ tokens \in Draws
    /\ card_string = Render(tokens)
    /\ self = NoSelf
    /\ raised = NoExc
    /\ call = ""
    /\ arg = <<>>
    /\ ret = <<>>
    /\ today = NoDate

\* card = CCParser(card_string)
Construct ==
    /\ pc = "start"
    /\ LET r == CCParserInit(card_string)
       IN  IF r.ok
           THEN /\ pc' = "constructed"
                /\ self' = [card_string |-> strip(card_string),
                            card_number |-> r.f[1], expiry_month |-> r.f[2],
                            expiry_year |-> r.f[3], cvv |-> r.f[4]]
                /\ raised' = NoExc
           ELSE /\ pc' = "failed"
                /\ self' = NoSelf
                /\ raised' = [exc |-> r.exc, msg |-> r.msg]
    /\ call' = "CCParser"
    /\ ret' = <<>>
    /\ UNCHANGED <<card_string, tokens, arg, today>>

Query(name, value) ==
    /\ pc = "constructed"
    /\ call' = name
    /\ ret' = value
    /\ UNCHANGED <<pc, card_string, tokens, self, raised, arg, today>>

get_number == Query("get_number", self.card_number)

get_expiry ==
    Query("get_expiry",
          self.expiry_month \o <<"/">>
              \o SubSeq(self.expiry_year, 3, Len(self.expiry_year)))

get_expiry_full ==
    Query("get_expiry_full", self.expiry_month \o <<"/">> \o self.expiry_year)

get_year == Query("get_year", self.expiry_year)

get_month == Query("get_month", self.expiry_month)

get_cvv == Query("get_cvv", self.cvv)

NextParse ==
    \/ Construct
    \/ get_number
    \/ get_expiry
    \/ get_expiry_full
    \/ get_year
    \/ get_month
    \/ get_cvv

SpecParse == InitParse /\ [][NextParse]_vars

(***************************************************************************)
(* Properties of construction (checked under SpecParse).                   *)
(***************************************************************************)
Fields == <<self.card_number, self.expiry_month, self.expiry_year, self.cvv>>

IsRun(d) == Len(d) > 0 /\ \A i \in 1..Len(d) : d[i] \in DelimChars

IsBlank(w) == \A i \in 1..Len(w) : w[i] \in Whitespace

\* the draw is 'N d M d Y d C' or 'N d M s Y d C' with well-formed tokens
WellFormedDraw ==
    /\ ~tokens.absent
    /\ isdigit(tokens.number) /\ isdigit(tokens.cvv)
    /\ PyInt(tokens.month).ok /\ PyInt(tokens.month).val \in 1..12
    /\ isdigit(tokens.year) /\ Len(tokens.year) \in {2, 4}
    /\ IsRun(tokens.d1) /\ IsRun(tokens.d3)
    /\ (IsRun(tokens.d2) \/ tokens.d2 \in SubSeps)
    /\ IsBlank(tokens.lead) /\ IsBlank(tokens.trail)

\* the same tokens joined by single pipes
PipeJoined ==
    tokens.number \o <<"|">> \o tokens.month \o <<"|">> \o tokens.year
        \o <<"|">> \o tokens.cvv

\* C1: whatever delimiter runs, expiry separator and surrounding whitespace
\* the well-formed tokens N, M, Y, C are written with, construction succeeds
\* and yields the fields that 'N|M|Y|C' yields.
C1_DelimiterIndependence ==
    (pc # "start" /\ WellFormedDraw) =>
        /\ pc = "constructed"
        /\ CCParserInit(PipeJoined).ok
        /\ Fields = CCParserInit(PipeJoined).f

C1_Witness ==
    /\ pc = "constructed" /\ WellFormedDraw
    /\ tokens.d2 = <<"-">> /\ tokens.d1 = <<" ", ":">>
    /\ tokens.lead = <<"\t">> /\ tokens.trail = <<"\n">>

BlankInput == card_string = None \/ strip(card_string) = <<>>

\* C2: construction from None, from "" and from a whitespace-only string fails
\* with the 'Card string cannot be empty' InvalidCardNumberError.
C2_BlankIsEmptyInput ==
    (pc # "start" /\ BlankInput) =>
        /\ pc = "failed"
        /\ raised = [exc |-> "InvalidCardNumberError", msg |-> MsgEmpty]

\* the raw tokens the constructor's input splits into
RawOf ==
    IF Truthy(card_string) THEN RawFields(Parts(strip(card_string)))
    ELSE Raise("InvalidCardNumberError", MsgEmpty)

MonthToken == RawOf.f[2]

YearToken == RawOf.f[3]

TwelveMonths ==
    {<<"0", "1">>, <<"0", "2">>, <<"0", "3">>, <<"0", "4">>, <<"0", "5">>,
     <<"0", "6">>, <<"0", "7">>, <<"0", "8">>, <<"0", "9">>, <<"1", "0">>,
     <<"1", "1">>, <<"1", "2">>}

\* C3: a constructed record's expiry_month is one of "01".."12" and is the
\* month token's integer value zero-padded; an input whose month token is not
\* an integer, or is an integer outside 1..12, fails with
\* InvalidExpiryDateError.
C3_MonthCanonical ==
    /\ pc = "constructed" =>
          /\ self.expiry_month \in TwelveMonths
          /\ IntValue(self.expiry_month, 0) = PyInt(MonthToken).val
    /\ (pc # "start" /\ RawOf.ok
           /\ (~PyInt(MonthToken).ok \/ PyInt(MonthToken).val \notin 1..12)) =>
          /\ pc = "failed"
          /\ raised.exc = "InvalidExpiryDateError"

C3_Witness ==
    /\ pc = "constructed"
    /\ MonthToken = <<"0", "0", "1">>
    /\ self.expiry_month = <<"0", "1">>

\* C4: a two-character year token YY is stored as "20"+YY (get_year returns
\* it and get_expiry ends with YY), a four-character token is stored
\* unchanged, and a token of any other length fails construction with
\* InvalidExpiryDateError.
C4_YearCanonical ==
    /\ (pc = "constructed" /\ Len(YearToken) = 2) =>
          /\ self.expiry_year = <<"2", "0">> \o YearToken
          /\ call = "get_year" => ret = <<"2", "0">> \o YearToken
          /\ call = "get_expiry" =>
                SubSeq(ret, Len(ret) - 1, Len(ret)) = YearToken
    /\ (pc = "constructed" /\ Len(YearToken) = 4) =>
          /\ self.expiry_year = YearToken
          /\ call = "get_year" => ret = YearToken
    /\ (pc # "start" /\ RawOf.ok /\ Len(YearToken) \notin {2, 4}) =>
          /\ pc = "failed"
          /\ raised.exc = "InvalidExpiryDateError"

C4_Witness ==
    /\ pc = "constructed" /\ call = "get_expiry"
    /\ YearToken = <<"3", "0">>
    /\ ret = <<"1", "2", "/", "3", "0">>

\* C5: the four fields of a constructed record are non-empty digit strings,
\* expiry_month of two digits and expiry_year of four.
C5_FieldsAreDigits ==
    pc = "constructed" =>
        /\ isdigit(self.card_number) /\ isdigit(self.cvv)
        /\ isdigit(self.expiry_month) /\ Len(self.expiry_month) = 2
        /\ isdigit(self.expiry_year) /\ Len(self.expiry_year) = 4

(***************************************************************************)
(* validator.validate_card_number: the Luhn check.                         *)
(* The outcome of a function call is its return value or the exception it  *)
(* raises.                                                                 *)
(***************************************************************************)
Returns(v) == [exc |-> "", val |-> v]

Throws(e) == [exc |-> e, val |-> FALSE]

RECURSIVE Sum(_)
Sum(xs) == IF Len(xs) = 0 THEN 0 ELSE Head(xs) + Sum(Tail(xs))

\* digits_of(n) = [int(d) for d in str(n)], for a str of digits
digits_of(n) == [i \in 1..Len(n) |-> DigitVal(n[i])]

\* only the last digit of n
digits_of_int_last(n) == <<n % 10>>

\* digits_of(n) for an int n >= 0: the digits of str(n)
digits_of_int(n) == digits_of(Decimal(n))

\* xs[-k::-2]: every second element, from the k-th last down to the first
RECURSIVE SliceBack(_, _)
SliceBack(xs, k) ==
    IF k > Len(xs) THEN <<>>
    ELSE <<xs[Len(xs) - k + 1]>> \o SliceBack(xs, k + 2)

\* xs[k-1::2]: every second element, from the k-th up to the last
RECURSIVE SliceForward(_, _)
SliceForward(xs, k) ==
    IF k > Len(xs) THEN <<>>
    ELSE <<xs[k]>> \o SliceForward(xs, k + 2)

luhn_checksum_from_left(number) ==
    LET digits == digits_of(number)
        odd_digits == SliceForward(digits, 1)
        even_digits == SliceForward(digits, 2)
        doubled == [i \in 1..Len(even_digits) |->
                       Sum(digits_of_int(even_digits[i] * 2))]
    IN  (Sum(odd_digits) + Sum(doubled)) % 10

luhn_checksum(number) ==
    LET digits == digits_of(number)
        odd_digits == SliceBack(digits, 1)
        even_digits == SliceBack(digits, 2)
        doubled == [i \in 1..Len(even_digits) |->
                       Sum(digits_of_int(even_digits[i] * 2))]
    IN  (Sum(odd_digits) + Sum(doubled)) % 10

\* `if not card_number.isdigit() or not card_number`: None has no isdigit
validate_card_number_isdigit_first(card_number) ==
    IF card_number = None THEN Throws("AttributeError")
    ELSE IF ~isdigit(card_number) \/ ~Truthy(card_number) THEN Returns(FALSE)
    ELSE Returns(luhn_checksum(card_number) = 0)

validate_card_number(card_number) ==
    IF ~Truthy(card_number) \/ ~isdigit(card_number) THEN Returns(FALSE)
    ELSE Returns(luhn_checksum(card_number) = 0)

MaxLuhnLen == 4

MaxMixedLen == 3

MaxZeros == 19

Repeat(c, n) == [i \in 1..n |-> c]

Fixtures ==
    {<<"4">> \o Repeat("1", 15),
     <<"4">> \o Repeat("1", 14) \o <<"2">>,
     <<"3", "7", "8", "2", "8", "2", "2", "4", "6", "3", "1", "0", "0", "0", "5">>,
     <<"5", "5">> \o Repeat("0", 13) \o <<"4">>,
     <<"4", "1", "1", "1", "A", "B", "C", "D">> \o Repeat("1", 8),
     <<"4", "1", "1", "1", " ", "1", "1", "1", "1", " ", "1", "1", "1", "1",
       " ", "1", "1", "1", "1">>}

LuhnInputs ==
    {None} \cup SeqsUpTo(Digits, MaxLuhnLen)
        \cup SeqsUpTo({"0", "4", "a", " ", "-"}, MaxMixedLen)
        \cup {Repeat("0", n) : n \in 1..MaxZeros} \cup Fixtures

InitLuhn ==
    /\ pc = "start"
    /\ arg \in LuhnInputs
    /\ card_string = <<>>
    /\ tokens = AbsentDraw
    /\ self = NoSelf
    /\ raised = NoExc
    /\ call = ""
    /\ ret = FALSE
    /\ today = NoDate

\* result = validate_card_number(arg)
ValidateCardNumber ==
    /\ pc = "start"
    /\ LET r == validate_card_number(arg)
       IN  /\ ret' = r.val
           /\ raised' = [exc |-> r.exc, msg |-> ""]
    /\ pc' = "done"
    /\ call' = "validate_card_number"
    /\ UNCHANGED <<card_string, tokens, self, arg, today>>

NextLuhn == ValidateCardNumber

SpecLuhn == InitLuhn /\ [][NextLuhn]_vars

\* the reference: counted from the right, a digit at an odd position counts
\* as it is, a digit at an even position doubled, less 9 when over 9
RefTerm(d, posFromRight) ==
    IF posFromRight % 2 = 1 THEN d
    ELSE IF 2 * d > 9 THEN 2 * d - 9 ELSE 2 * d

RECURSIVE RefSum(_, _)
RefSum(n, i) ==
    IF i > Len(n) THEN 0
    ELSE RefTerm(DigitVal(n[i]), Len(n) - i + 1) + RefSum(n, i + 1)

Called == pc = "done" /\ raised.exc = ""

C7_FailsClosed ==
    (pc = "done" /\ (arg = None \/ ~isdigit(arg))) =>
        /\ raised.exc = ""
        /\ ret = FALSE

C7_Witness == Called /\ arg = None /\ ret = FALSE

(***************************************************************************)
(* utils.CARD_TYPE_PATTERNS and utils.detect_card_type.                    *)
(* Each pattern is anchored at both ends; Matches...(s) is                 *)
(* re.match(pattern, s) for a str s.                                       *)
(***************************************************************************)
\* s[from..to] exist and are all in the class S
Class(s, from, to, S) == Len(s) >= to /\ \A i \in from..to : s[i] \in S

\* s starts with the literal p
Lit(s, p) == Len(s) >= Len(p) /\ SubSeq(s, 1, Len(p)) = p

\* ^4[0-9]{12}(?:[0-9]{3}){0,2}$
MatchesVisaUpTo19(s) ==
    /\ Lit(s, <<"4">>)
    /\ Class(s, 2, 13, Digits)
    /\ \/ Len(s) = 13
       \/ Len(s) = 16 /\ Class(s, 14, 16, Digits)
       \/ Len(s) = 19 /\ Class(s, 14, 19, Digits)

\* ^4[0-9]{12}(?:[0-9]{3})?$
MatchesVisa(s) ==
    /\ Lit(s, <<"4">>)
    /\ Class(s, 2, 13, Digits)
    /\ \/ Len(s) = 13
       \/ Len(s) = 16 /\ Class(s, 14, 16, Digits)

\* ^5[1-5][0-9]{14}$
MatchesMasterCard(s) ==
    /\ Lit(s, <<"5">>)
    /\ Class(s, 2, 2, {"1", "2", "3", "4", "5"})
    /\ Class(s, 3, 16, Digits)
    /\ Len(s) = 16

\* ^3[47][0-9]{13}  (no end anchor)
MatchesAMEXPrefix(s) ==
    /\ Lit(s, <<"3">>)
    /\ Class(s, 2, 2, {"4", "7"})
    /\ Class(s, 3, 15, Digits)

\* ^3[47][0-9]{13}$
MatchesAMEX(s) ==
    /\ Lit(s, <<"3">>)
    /\ Class(s, 2, 2, {"4", "7"})
    /\ Class(s, 3, 15, Digits)
    /\ Len(s) = 15

\* ^6(?:011|4[4-9][0-9]|5[0-9]{2})[0-9]{12}$
MatchesDiscover(s) ==
    /\ Lit(s, <<"6">>)
    /\ \/ Lit(s, <<"6", "0", "1", "1">>)
       \/ /\ Class(s, 2, 2, {"4"})
          /\ Class(s, 3, 3, {"4", "5", "6", "7", "8", "9"})
          /\ Class(s, 4, 4, Digits)
       \/ Class(s, 2, 2, {"5"}) /\ Class(s, 3, 4, Digits)
    /\ Class(s, 5, 16, Digits)
    /\ Len(s) = 16

\* ^(?:2131|1800|35\d{2})\d{12}$
MatchesJCB16(s) ==
    /\ \/ Lit(s, <<"2", "1", "3", "1">>)
       \/ Lit(s, <<"1", "8", "0", "0">>)
       \/ Lit(s, <<"3", "5">>) /\ Class(s, 3, 4, Digits)
    /\ Class(s, 5, 16, Digits)
    /\ Len(s) = 16

\* ^(?:2131|1800|35\d{3})\d{11}$
MatchesJCB(s) ==
    \/ /\ \/ Lit(s, <<"2", "1", "3", "1">>)
          \/ Lit(s, <<"1", "8", "0", "0">>)
       /\ Class(s, 5, 15, Digits)
       /\ Len(s) = 15
    \/ /\ Lit(s, <<"3", "5">>)
       /\ Class(s, 3, 5, Digits)
       /\ Class(s, 6, 16, Digits)
       /\ Len(s) = 16

\* ^3(?:0[0-5]|[68][0-9])[0-9]{11}$
MatchesDinersClub(s) ==
    /\ Lit(s, <<"3">>)
    /\ \/ Class(s, 2, 2, {"0"}) /\ Class(s, 3, 3, {"0", "1", "2", "3", "4", "5"})
       \/ Class(s, 2, 2, {"6", "8"}) /\ Class(s, 3, 3, Digits)
    /\ Class(s, 4, 14, Digits)
    /\ Len(s) = 14

\* ^6[0-9]{15,18}$
MatchesUnionPayAnySix(s) ==
    /\ Lit(s, <<"6">>)
    /\ Class(s, 2, 16, Digits)
    /\ Len(s) \in 16..19
    /\ Class(s, 17, Len(s), Digits)

\* ^62[0-9]{14,17}$
MatchesUnionPay(s) ==
    /\ Lit(s, <<"6", "2">>)
    /\ Class(s, 3, 16, Digits)
    /\ Len(s) \in 16..19
    /\ Class(s, 17, Len(s), Digits)

\* the keys of CARD_TYPE_PATTERNS, in insertion order
CARD_TYPES ==
    <<"Visa", "MasterCard", "AMEX", "Discover", "JCB", "Diners Club", "UnionPay">>

Matches(card_type, s) ==
    CASE card_type = "Visa" -> MatchesVisa(s)
      [] card_type = "MasterCard" -> MatchesMasterCard(s)
      [] card_type = "AMEX" -> MatchesAMEX(s)
      [] card_type = "Discover" -> MatchesDiscover(s)
      [] card_type = "JCB" -> MatchesJCB(s)
      [] card_type = "Diners Club" -> MatchesDinersClub(s)
      [] card_type = "UnionPay" -> MatchesUnionPay(s)

\* "".join(c for c in card_number if c.isdigit())
clean_number(card_number) == SelectSeq(card_number, LAMBDA c : c \in Digits)

\* the loop over CARD_TYPE_PATTERNS.items(), from the i-th entry on
RECURSIVE FirstMatch(_, _)
FirstMatch(s, i) ==
    IF i > Len(CARD_TYPES) THEN "Unknown"
    ELSE IF Matches(CARD_TYPES[i], s) THEN CARD_TYPES[i]
         ELSE FirstMatch(s, i + 1)

\* without "Clean any non-digit characters"
detect_card_type_no_clean(card_number) ==
    IF ~Truthy(card_number) THEN "Unknown"
    ELSE FirstMatch(card_number, 1)

detect_card_type(card_number) ==
    IF ~Truthy(card_number) THEN "Unknown"
    ELSE FirstMatch(clean_number(card_number), 1)

MinCardLen == 12

MaxCardLen == 20

PrefixLen == 4

\* a prefix continued with zeros to the length n
Padded(p, n) == SubSeq(p \o Repeat("0", MaxCardLen), 1, n)

\* the characters written between the groups of a number
Separators == {" ", "-", "a"}

\* s with sep after every fourth character
RECURSIVE Grouped(_, _)
Grouped(s, sep) ==
    IF Len(s) <= 4 THEN s
    ELSE SubSeq(s, 1, 4) \o <<sep>> \o Grouped(SubSeq(s, 5, Len(s)), sep)

\* the digit strings no longer than a prefix, every prefix continued to
\* every card length, and numbers written in groups
InitDetect ==
    /\ pc = "start"
    /\ \/ \E k \in 0..PrefixLen : \E p \in [1..k -> Digits] : arg = p
       \/ \E p \in [1..PrefixLen -> Digits] :
             \E n \in MinCardLen..MaxCardLen : arg = Padded(p, n)
       \/ \E p \in [1..(PrefixLen - 2) -> Digits] :
             \E n \in MinCardLen..MaxCardLen : \E sep \in Separators :
                arg = Grouped(Padded(p, n), sep)
       \/ \E sep \in Separators : arg \in {<<sep>>, <<sep, sep>>}
    /\ card_string = <<>>
    /\ tokens = AbsentDraw
    /\ self = NoSelf
    /\ raised = NoExc
    /\ call = ""
    /\ ret = ""
    /\ today = NoDate

\* result = detect_card_type(arg)
DetectCardType ==
    /\ pc \in {"start", "done"}
    /\ ret' = detect_card_type(arg)
    /\ pc' = "done"
    /\ call' = "detect_card_type"
    /\ UNCHANGED <<card_string, tokens, self, raised, arg, today>>

NextDetect == DetectCardType

SpecDetect == InitDetect /\ [][NextDetect]_vars

StartsWithAny(s, P) == \E p \in P : Lit(s, p)

\* C8: for a digit string N, detect_card_type(N) is MasterCard iff N starts
\* with 51..55 and has 16 digits, AMEX iff it starts with 34 or 37 and has 15,
\* Discover iff it starts with 6011, 644..649 or 65 and has 16, Diners Club
\* iff it starts with 300..305, 36 or 38 and has 14, UnionPay iff it starts
\* with 62 and has 16..19; a digit string that no pattern matches is Unknown.
C8_IssuerTable ==
    (pc = "done" /\ isdigit(arg)) =>
        /\ ret = "MasterCard" <=>
              /\ StartsWithAny(arg, {<<"5", "1">>, <<"5", "2">>, <<"5", "3">>,
                                     <<"5", "4">>, <<"5", "5">>})
              /\ Len(arg) = 16
        /\ ret = "AMEX" <=>
              /\ StartsWithAny(arg, {<<"3", "4">>, <<"3", "7">>})
              /\ Len(arg) = 15
        /\ ret = "Discover" <=>
              /\ StartsWithAny(arg, {<<"6", "0", "1", "1">>, <<"6", "4", "4">>,
                                     <<"6", "4", "5">>, <<"6", "4", "6">>,
                                     <<"6", "4", "7">>, <<"6", "4", "8">>,
                                     <<"6", "4", "9">>, <<"6", "5">>})
              /\ Len(arg) = 16
        /\ ret = "Diners Club" <=>
              /\ StartsWithAny(arg, {<<"3", "0", "0">>, <<"3", "0", "1">>,
                                     <<"3", "0", "2">>, <<"3", "0", "3">>,
                                     <<"3", "0", "4">>, <<"3", "0", "5">>,
                                     <<"3", "6">>, <<"3", "8">>})
              /\ Len(arg) = 14
        /\ ret = "UnionPay" <=>
              /\ Lit(arg, <<"6", "2">>)
              /\ Len(arg) \in 16..19
        /\ (\A i \in 1..Len(CARD_TYPES) : ~Matches(CARD_TYPES[i], arg)) =>
              ret = "Unknown"

\* fifteen AMEX digits followed by an extra digit
C8_Witness ==
    /\ pc = "done" /\ ret = "Unknown"
    /\ Lit(arg, <<"3", "7">>) /\ Len(arg) = 16

\* C9: for a digit string N, detect_card_type(N) is Visa iff N starts with 4
\* and has 13 or 16 digits; 19 digits starting with 4 are not Visa.
C9_VisaRule ==
    (pc = "done" /\ isdigit(arg)) =>
        (ret = "Visa" <=> (Lit(arg, <<"4">>) /\ Len(arg) \in {13, 16}))

C9_Witness ==
    /\ pc = "done" /\ ret = "Unknown"
    /\ Lit(arg, <<"4">>) /\ Len(arg) = 19

JCBPrefix4 == {<<"2", "1", "3", "1">>, <<"1", "8", "0", "0">>}

\* C10 as stated: for a digit string N, detect_card_type(N) is JCB iff N has
\* exactly 16 digits and starts with 2131, 1800 or 35.
C10_JCBLength16 ==
    (pc = "done" /\ isdigit(arg)) =>
        (ret = "JCB" <=>
            /\ Len(arg) = 16
            /\ StartsWithAny(arg, JCBPrefix4 \cup {<<"3", "5">>}))

\* C10 amended: for a digit string N, detect_card_type(N) is JCB iff N starts
\* with 35 and has 16 digits, or starts with 2131 or 1800 and has 15 digits.
C10_JCBRule ==
    (pc = "done" /\ isdigit(arg)) =>
        (ret = "JCB" <=>
            \/ Lit(arg, <<"3", "5">>) /\ Len(arg) = 16
            \/ StartsWithAny(arg, JCBPrefix4) /\ Len(arg) = 15)

C10_Witness ==
    /\ pc = "done" /\ ret = "JCB"
    /\ Lit(arg, <<"2", "1", "3", "1">>) /\ Len(arg) = 15

Tags ==
    {"Visa", "MasterCard", "AMEX", "Discover", "JCB", "Diners Club",
     "UnionPay", "Unknown"}

\* s without its non-digit characters
RECURSIVE DigitsOnly(_)
DigitsOnly(s) ==
    IF Len(s) = 0 THEN <<>>
    ELSE IF Head(s) \in Digits THEN <<Head(s)>> \o DigitsOnly(Tail(s))
         ELSE DigitsOnly(Tail(s))

\* C11: for every string, after any number of calls, detect_card_type has
\* raised nothing and returned one of the eight tags, the tag it returns for
\* the string's digits alone.
C11_TotalSeparatorTolerant ==
    pc = "done" =>
        /\ raised.exc = ""
        /\ ret \in Tags
        /\ ret = detect_card_type(DigitsOnly(arg))

C11_Witness ==
    /\ pc = "done" /\ ret = "Visa"
    /\ Len(arg) = 19 /\ arg[5] = "-"

(***************************************************************************)
(* validator.validate_expiry_date.  A datetime at midnight is the triple   *)
(* (year, month, day); datetime.now() is the variable `today`.             *)
(***************************************************************************)
IsLeap(y) == (y % 4 = 0 /\ y % 100 # 0) \/ y % 400 = 0

\* the days of each month, as the datetime module tabulates them
DaysInMonth(y, m) ==
    IF m = 2 /\ IsLeap(y) THEN 29
    ELSE <<31, 28, 31, 30, 31, 30, 31, 31, 30, 31, 30, 31>>[m]

\* datetime(y, m, d): ValueError for a date that does not exist
datetime(y, m, d) ==
    IF y \in 1..9999 /\ m \in 1..12 /\ d >= 1 /\ d <= DaysInMonth(y, m)
    THEN [exc |-> "", val |-> <<y, m, d>>]
    ELSE [exc |-> "ValueError", val |-> NoDate]

\* dt - datetime.timedelta(days=1)
MinusOneDay(dt) ==
    IF dt[3] > 1 THEN <<dt[1], dt[2], dt[3] - 1>>
    ELSE IF dt[2] > 1 THEN <<dt[1], dt[2] - 1, DaysInMonth(dt[1], dt[2] - 1)>>
         ELSE <<dt[1] - 1, 12, 31>>

\* month and day compared, the year ignored
DateGEWithinYear(a, b) ==
    \/ a[2] > b[2]
    \/ a[2] = b[2] /\ a[3] >= b[3]

\* a >= b for two datetimes
DateGE(a, b) ==
    \/ a[1] > b[1]
    \/ a[1] = b[1] /\ a[2] > b[2]
    \/ a[1] = b[1] /\ a[2] = b[2] /\ a[3] >= b[3]

\* int(x): TypeError for None, ValueError for a str that is no integer
IntOf(x) ==
    IF x = None THEN [exc |-> "TypeError", val |-> 0]
    ELSE IF PyInt(x).ok THEN [exc |-> "", val |-> PyInt(x).val]
         ELSE [exc |-> "ValueError", val |-> 0]

WindowPast == 10

WindowFuture == 20

\* without the December branch: the first day of month 13 does not exist
last_day_no_december(year_int, month_int) ==
    LET next_month == datetime(year_int, month_int + 1, 1)
    IN  IF next_month.exc # "" THEN [exc |-> next_month.exc, val |-> 0]
        ELSE [exc |-> "", val |-> MinusOneDay(next_month.val)[3]]

\* "Calculate the last day of the expiry month"
last_day(year_int, month_int) ==
    IF month_int = 12 THEN [exc |-> "", val |-> 31]
    ELSE LET next_month == datetime(year_int, month_int + 1, 1)
         IN  IF next_month.exc # "" THEN [exc |-> next_month.exc, val |-> 0]
             ELSE [exc |-> "", val |-> MinusOneDay(next_month.val)[3]]

\* the body of the try block: the value returned or the exception raised
expiry_try(month, year, now) ==
    LET m == IntOf(month)
        y == IntOf(year)
        year_int == IF y.val < 100 THEN y.val + 2000 ELSE y.val
        current_year == now[1]
        expiry_date == datetime(year_int, m.val, 1)
        last == last_day(year_int, m.val)
    IN  IF m.exc # "" THEN Throws(m.exc)
        ELSE IF y.exc # "" THEN Throws(y.exc)
        ELSE IF m.val < 1 \/ m.val > 12 THEN Returns(FALSE)
        ELSE IF year_int < current_year - WindowPast
                   \/ year_int > current_year + WindowFuture
             THEN Returns(FALSE)
        ELSE IF expiry_date.exc # "" THEN Throws(expiry_date.exc)
        ELSE IF last.exc # "" THEN Throws(last.exc)
        ELSE Returns(DateGE(<<year_int, m.val, last.val>>, now))

\* except (ValueError, TypeError): return False
validate_expiry_date(month, year, now) ==
    LET r == expiry_try(month, year, now)
    IN  IF r.exc \in {"ValueError", "TypeError"} THEN Returns(FALSE) ELSE r

ThisYear == 2024

\* the dates today may be: the first, a middle and the last days of every
\* month of two years
Dates ==
    {dt \in {<<y, m, d>> : y \in {ThisYear, ThisYear + 1}, m \in 1..12,
                           d \in {1, 15, 28, 29, 30, 31}} :
        dt[3] <= DaysInMonth(dt[1], dt[2])}

MonthArgs ==
    {Format02d(m) : m \in 1..12}
        \cup {<<"1">>, <<"0", "0">>, <<"1", "3">>, <<"-", "1">>, <<"A", "B">>,
              <<>>, None}

\* years around today and around both ends of the accepted window
YearsNear ==
    ((ThisYear - WindowPast - 2)..(ThisYear - WindowPast + 1))
        \cup ((ThisYear - 1)..(ThisYear + 4))
        \cup ((ThisYear + WindowFuture - 1)..(ThisYear + WindowFuture + 2))

YearArgs ==
    {Decimal(y) : y \in YearsNear}
        \cup {Format02d(y % 100) : y \in (ThisYear - 1)..(ThisYear + 2)}
        \cup {<<"0", "0">> \o Format02d((ThisYear + 1) % 100)}
        \cup {<<"9", "9">>, <<"0", "0">>, <<"-", "5">>, <<"Y", "Y", "Y", "Y">>,
              <<>>, None}

InitExpiry ==
    /\ pc = "start"
    /\ arg \in MonthArgs \X YearArgs
    /\ today \in Dates
    /\ card_string = <<>>
    /\ tokens = AbsentDraw
    /\ self = NoSelf
    /\ raised = NoExc
    /\ call = ""
    /\ ret = FALSE

\* result = validate_expiry_date(month, year), on the day `today`
ValidateExpiryDate ==
    /\ pc = "start"
    /\ LET r == validate_expiry_date(arg[1], arg[2], today)
       IN  /\ ret' = r.val
           /\ raised' = [exc |-> r.exc, msg |-> ""]
    /\ pc' = "done"
    /\ call' = "validate_expiry_date"
    /\ UNCHANGED <<card_string, tokens, self, arg, today>>

NextExpiry == ValidateExpiryDate

SpecExpiry == InitExpiry /\ [][NextExpiry]_vars

\* thirty days has September, April, June and November
RefLastDay(y, m) ==
    IF m \in {4, 6, 9, 11} THEN 30
    ELSE IF m # 2 THEN 31
    ELSE IF y % 400 = 0 \/ (y % 4 = 0 /\ y % 100 # 0) THEN 29 ELSE 28

Parses(x) == x # None /\ PyInt(x).ok

RefMonth == PyInt(arg[1]).val

RefYear ==
    IF PyInt(arg[2]).val < 100 THEN PyInt(arg[2]).val + 2000
    ELSE PyInt(arg[2]).val

RefInRange ==
    /\ Parses(arg[1]) /\ Parses(arg[2])
    /\ RefMonth \in 1..12
    /\ RefYear >= today[1] - 10 /\ RefYear <= today[1] + 20

\* today is in the expiry month or before it
NotPastExpiryMonth ==
    today[1] < RefYear \/ (today[1] = RefYear /\ today[2] <= RefMonth)

\* C12: validate_expiry_date(month, year) raises nothing and is True iff both
\* arguments parse as integers, the month is in 1..12, the year (plus 2000
\* when below 100) is within ten years back and twenty ahead of the current
\* year, and the last day of that month is today or later, that is, iff
\* today is no later than the expiry month.
C12_ExpiryReference ==
    pc = "done" =>
        /\ raised.exc = ""
        /\ ret = (RefInRange
                    /\ DateGE(<<RefYear, RefMonth, RefLastDay(RefYear, RefMonth)>>,
                              today))
        /\ ret = (RefInRange /\ NotPastExpiryMonth)

\* on the last day of February, a card expiring that month
C12_Witness ==
    /\ pc = "done" /\ ret = TRUE
    /\ today[2] = 2 /\ today[3] = DaysInMonth(today[1], 2)
    /\ RefInRange /\ RefYear = today[1] /\ RefMonth = 2

(***************************************************************************)
(* validator.validate_cvv.                                                 *)
(***************************************************************************)
\* three or four digits for every card type
validate_cvv_any_type(cvv, card_number) ==
    IF ~Truthy(cvv) \/ ~isdigit(cvv) THEN Returns(FALSE)
    ELSE Returns(Len(cvv) \in {3, 4})

validate_cvv(cvv, card_number) ==
    IF ~Truthy(cvv) \/ ~isdigit(cvv) THEN Returns(FALSE)
    ELSE IF detect_card_type(card_number) = "AMEX" THEN Returns(Len(cvv) = 4)
         ELSE Returns(Len(cvv) = 3)

MaxCvvLen == 5

Visa16 == <<"4">> \o Repeat("1", 15)

Visa16BadLuhn == <<"4">> \o Repeat("1", 14) \o <<"2">>

Amex15 ==
    <<"3", "7", "8", "2", "8", "2", "2", "4", "6", "3", "1", "0", "0", "0", "5">>

MasterCard16 == <<"5", "5">> \o Repeat("0", 13) \o <<"4">>

Diners14 ==
    <<"3", "0", "5", "6", "9", "3", "0", "9", "0", "2", "5", "9", "0", "4">>

\* an AMEX prefix on sixteen digits
AmexPrefix16 == <<"3", "7">> \o Repeat("0", 14)

CvvNumberArgs ==
    {Visa16, Amex15, MasterCard16, Diners14, AmexPrefix16,
     <<"3", "4">> \o Repeat("0", 13), <<"3", "7">>, <<>>,
     Grouped(Amex15, " ")}

InitCvv ==
    /\ pc = "start"
    /\ arg \in (SeqsUpTo({"1", "9", "a", " "}, MaxCvvLen) \cup {None})
                  \X CvvNumberArgs
    /\ today = NoDate
    /\ card_string = <<>>
    /\ tokens = AbsentDraw
    /\ self = NoSelf
    /\ raised = NoExc
    /\ call = ""
    /\ ret = FALSE

\* result = validate_cvv(cvv, card_number)
ValidateCvv ==
    /\ pc = "start"
    /\ LET r == validate_cvv(arg[1], arg[2])
       IN  /\ ret' = r.val
           /\ raised' = [exc |-> r.exc, msg |-> ""]
    /\ pc' = "done"
    /\ call' = "validate_cvv"
    /\ UNCHANGED <<card_string, tokens, self, arg, today>>

NextCvv == ValidateCvv

SpecCvv == InitCvv /\ [][NextCvv]_vars

AllDigits(c) == c # None /\ \A i \in 1..Len(c) : c[i] \in Digits

\* C14: validate_cvv(c, n) is True iff c is non-empty, all digits, and of
\* length 4 when detect_card_type(n) is AMEX and 3 for every other
\* classification; an AMEX prefix on a number that is not 15 digits long
\* requires 3 digits.
C14_CvvRule ==
    pc = "done" =>
        /\ raised.exc = ""
        /\ ret = (/\ AllDigits(arg[1])
                  /\ Len(arg[1]) > 0
                  /\ Len(arg[1]) =
                        IF detect_card_type(arg[2]) = "AMEX" THEN 4 ELSE 3)
        /\ (arg[2] = AmexPrefix16 /\ AllDigits(arg[1])) =>
              ret = (Len(arg[1]) = 3)

C14_Witness ==
    /\ pc = "done" /\ ret = TRUE
    /\ arg[2] = AmexPrefix16 /\ arg[1] = <<"1", "9", "1">>

(***************************************************************************)
(* CCParser.is_valid and CCParser.validate on a constructed record.        *)
(***************************************************************************)
\* validate_card_number(self.card_number)
check_number(obj) == validate_card_number(obj.card_number)

\* validate_expiry_date(self.expiry_month, self.expiry_year)
check_expiry(obj, now) ==
    validate_expiry_date(obj.expiry_month, obj.expiry_year, now)

\* validate_cvv(self.cvv, self.card_number)
check_cvv(obj) == validate_cvv(obj.cvv, obj.card_number)

\* without the CVV check
is_valid_no_cvv(obj, now) ==
    IF check_number(obj).exc # "" THEN FALSE
    ELSE IF ~check_number(obj).val THEN FALSE
    ELSE IF check_expiry(obj, now).exc # "" THEN FALSE
    ELSE IF ~check_expiry(obj, now).val THEN FALSE
    ELSE TRUE

\* is_valid(): the first failing check returns False; `except Exception`
\* turns an exception of a check into False
is_valid(obj, now) ==
    IF check_number(obj).exc # "" THEN FALSE
    ELSE IF ~check_number(obj).val THEN FALSE
    ELSE IF check_expiry(obj, now).exc # "" THEN FALSE
    ELSE IF ~check_expiry(obj, now).val THEN FALSE
    ELSE IF check_cvv(obj).exc # "" THEN FALSE
    ELSE IF ~check_cvv(obj).val THEN FALSE
    ELSE TRUE

MsgLuhn == "Card number failed Luhn validation"

MsgExpired == "Card has expired or expiry date is invalid"

MsgCvvLength == "Invalid CVV length"

\* the expiry check made before the number check
validate_expiry_first(obj, now) ==
    IF check_expiry(obj, now).exc # ""
         THEN [exc |-> check_expiry(obj, now).exc, msg |-> ""]
    ELSE IF ~check_expiry(obj, now).val
         THEN [exc |-> "InvalidExpiryDateError", msg |-> MsgExpired]
    ELSE IF check_number(obj).exc # ""
         THEN [exc |-> check_number(obj).exc, msg |-> ""]
    ELSE IF ~check_number(obj).val
         THEN [exc |-> "InvalidCardNumberError", msg |-> MsgLuhn]
    ELSE IF check_cvv(obj).exc # ""
         THEN [exc |-> check_cvv(obj).exc, msg |-> ""]
    ELSE IF ~check_cvv(obj).val
         THEN [exc |-> "InvalidCVVError", msg |-> MsgCvvLength]
    ELSE NoExc

\* validate(): the exception it raises, NoExc when it returns; an exception
\* of a check propagates
validate(obj, now) ==
    IF check_number(obj).exc # ""
         THEN [exc |-> check_number(obj).exc, msg |-> ""]
    ELSE IF ~check_number(obj).val
         THEN [exc |-> "InvalidCardNumberError", msg |-> MsgLuhn]
    ELSE IF check_expiry(obj, now).exc # ""
         THEN [exc |-> check_expiry(obj, now).exc, msg |-> ""]
    ELSE IF ~check_expiry(obj, now).val
         THEN [exc |-> "InvalidExpiryDateError", msg |-> MsgExpired]
    ELSE IF check_cvv(obj).exc # ""
         THEN [exc |-> check_cvv(obj).exc, msg |-> ""]
    ELSE IF ~check_cvv(obj).val
         THEN [exc |-> "InvalidCVVError", msg |-> MsgCvvLength]
    ELSE NoExc

RecordYears ==
    {Decimal(y) : y \in YearsNear}
        \cup {Format02d(y % 100) : y \in (ThisYear - 1)..(ThisYear + 2)}
        \cup {<<"0", "0">> \o Format02d((ThisYear + 1) % 100),
              <<"0", "0", "0", "5">>, <<"a", "b", "c", "d">>}

\* full records in the pipe layout
RecordDraws ==
    {Draw(<<>>, n, <<"|">>, m, <<"|">>, y, <<"|">>, c, <<>>) :
        n \in {Visa16, Visa16BadLuhn, Amex15, AmexPrefix16},
        m \in {<<"1">>, <<"0", "6">>, <<"1", "2">>},
        y \in RecordYears,
        c \in {<<"1", "2", "3">>, <<"1", "2", "3", "4">>, <<"1", "2">>}}

InitRecord ==
    /\ pc = "start"
    /\ tokens \in RecordDraws
    /\ card_string = Render(tokens)
    /\ today \in {dt \in Dates : dt[3] = 1 /\ dt[2] \in {1, 6, 7, 12}}
    /\ self = NoSelf
    /\ raised = NoExc
    /\ call = ""
    /\ arg = <<>>
    /\ ret = <<>>

\* result = card.is_valid()
IsValid ==
    /\ pc = "constructed"
    /\ call' = "is_valid"
    /\ ret' = is_valid(self, today)
    /\ raised' = NoExc
    /\ UNCHANGED <<pc, card_string, tokens, self, arg, today>>

\* validate() clearing the CVV when it raises
ValidateClearing ==
    /\ pc = "constructed"
    /\ call' = "validate"
    /\ ret' = None
    /\ raised' = validate(self, today)
    /\ self' = IF raised'.exc = "" THEN self ELSE [self EXCEPT !.cvv = <<>>]
    /\ UNCHANGED <<pc, card_string, tokens, arg, today>>

\* card.validate()
Validate ==
    /\ pc = "constructed"
    /\ call' = "validate"
    /\ ret' = None
    /\ raised' = validate(self, today)
    /\ UNCHANGED <<pc, card_string, tokens, self, arg, today>>

NextRecord == Construct \/ IsValid \/ Validate

SpecRecord == InitRecord /\ [][NextRecord]_vars

\* the stored year, read as a four-digit calendar year, lies outside the
\* window around the current year
StoredYearOutOfWindow ==
    /\ isdigit(self.expiry_year) /\ Len(self.expiry_year) = 4
    /\ \/ IntValue(self.expiry_year, 0) < today[1] - 10
       \/ IntValue(self.expiry_year, 0) > today[1] + 20

\* C13: a constructed record whose stored four-character year, read as a
\* calendar year (leading zeros included), is outside [current_year-10,
\* current_year+20] has is_valid() False and validate() raising.
C13_OutOfWindowInvalid ==
    (pc = "constructed" /\ StoredYearOutOfWindow) =>
        /\ call = "is_valid" => ret = FALSE
        /\ call = "validate" => raised.exc # ""

NumberOk == validate_card_number(self.card_number).val

ExpiryOk ==
    validate_expiry_date(self.expiry_month, self.expiry_year, today).val

CvvOk == validate_cvv(self.cvv, self.card_number).val

\* C15: is_valid() returns a boolean, raises nothing, and its value is
\* validate_card_number AND validate_expiry_date AND validate_cvv of the
\* record's fields.
C15_CombinedValidity ==
    call = "is_valid" =>
        /\ raised.exc = ""
        /\ ret \in BOOLEAN
        /\ ret = (NumberOk /\ ExpiryOk /\ CvvOk)

C15_Witness ==
    /\ call = "is_valid" /\ ret = FALSE
    /\ NumberOk /\ ExpiryOk /\ ~CvvOk

\* C16: validate() returns normally iff is_valid() is True; otherwise it
\* raises the error of the first failing check in the order number
\* (InvalidCardNumberError), expiry (InvalidExpiryDateError), CVV
\* (InvalidCVVError).
C16_StrictOrder ==
    call = "validate" =>
        /\ (raised.exc = "") = is_valid(self, today)
        /\ raised.exc =
              IF ~NumberOk THEN "InvalidCardNumberError"
              ELSE IF ~ExpiryOk THEN "InvalidExpiryDateError"
              ELSE IF ~CvvOk THEN "InvalidCVVError"
              ELSE ""

\* a record failing all three checks reports the number
C16_Witness ==
    /\ call = "validate" /\ raised.exc = "InvalidCardNumberError"
    /\ ~NumberOk /\ ~ExpiryOk /\ ~CvvOk

(***************************************************************************)
(* formatter.format_card_number and formatter.mask_card_number.            *)
(***************************************************************************)
Min(a, b) == IF a <= b THEN a ELSE b

\* s[a:b] for 0 <= a
Slice(s, a, b) == SubSeq(s, a + 1, Min(b, Len(s)))

\* s[-k:] for k >= 0: the whole of s when k is 0 or exceeds its length
SliceLast(s, k) ==
    IF k = 0 \/ k >= Len(s) THEN s ELSE SubSeq(s, Len(s) - k + 1, Len(s))

\* separator.join(groups)
RECURSIVE Join(_, _)
Join(groups, separator) ==
    IF Len(groups) = 0 THEN <<>>
    ELSE IF Len(groups) = 1 THEN groups[1]
         ELSE groups[1] \o separator \o Join(Tail(groups), separator)

\* clean_number[i:i+4] for i in range(i, len(clean_number), 4)
RECURSIVE GroupsOf4(_, _)
GroupsOf4(clean, i) ==
    IF i >= Len(clean) THEN <<>>
    ELSE <<Slice(clean, i, i + 4)>> \o GroupsOf4(clean, i + 4)

\* a 4-5-rest layout
Format456(clean, separator) ==
    Slice(clean, 0, 4) \o separator \o Slice(clean, 4, 9) \o separator
        \o Slice(clean, 9, Len(clean))

\* the 4-6-rest layout of the 15 and 14 digit numbers
Format465(clean, separator) ==
    Slice(clean, 0, 4) \o separator \o Slice(clean, 4, 10) \o separator
        \o Slice(clean, 10, Len(clean))

\* without "Clean any existing formatting"
format_card_number_no_clean(card_number, separator) ==
    IF ~Truthy(card_number) THEN <<>>
    ELSE IF Len(card_number) = 15 THEN Format465(card_number, separator)
    ELSE IF Len(card_number) = 14 THEN Format465(card_number, separator)
    ELSE Join(GroupsOf4(card_number, 0), separator)

format_card_number(card_number, separator) ==
    IF ~Truthy(card_number) THEN <<>>
    ELSE LET clean == clean_number(card_number)
         IN  IF Len(clean) = 15 THEN Format465(clean, separator)
             ELSE IF Len(clean) = 14 THEN Format465(clean, separator)
             ELSE Join(GroupsOf4(clean, 0), separator)

Stars(n) == [i \in 1..n |-> "*"]

\* clean_number[:visible_digits]
visible_part_head(clean, visible_digits) == Slice(clean, 0, visible_digits)

\* visible_part = clean_number[-visible_digits:]
visible_part(clean, visible_digits) == SliceLast(clean, visible_digits)

\* the visible digits taken from the start of the group
boundary_group_from_start(clean, i, group_size, remaining_masked) ==
    Stars(remaining_masked) \o Slice(clean, i, i + group_size - remaining_masked)

\* "*" * remaining_masked + clean_number[i + remaining_masked:i + group_size]
boundary_group(clean, i, group_size, remaining_masked) ==
    Stars(remaining_masked) \o Slice(clean, i + remaining_masked, i + group_size)

\* the loop of the generic fallback, from offset i on
RECURSIVE masked_groups(_, _, _)
masked_groups(clean, i, remaining_masked) ==
    IF i >= Len(clean) THEN <<>>
    ELSE LET group_size == Min(4, Len(clean) - i)
         IN  IF remaining_masked >= group_size
             THEN <<Stars(group_size)>>
                      \o masked_groups(clean, i + 4, remaining_masked - group_size)
             ELSE IF remaining_masked > 0
                  THEN <<boundary_group(clean, i, group_size, remaining_masked)>>
                           \o masked_groups(clean, i + 4, 0)
                  ELSE <<Slice(clean, i, i + group_size)>>
                           \o masked_groups(clean, i + 4, remaining_masked)

mask_card_number(card_number, visible_digits) ==
    IF ~Truthy(card_number) THEN <<>>
    ELSE LET clean == clean_number(card_number)
             length == Len(clean)
         IN  IF length < visible_digits THEN clean
             ELSE IF length = 15
                  THEN Stars(4) \o <<" ">> \o Stars(6) \o <<" ", "*">>
                           \o visible_part(clean, visible_digits)
             ELSE IF length = 14
                  THEN Stars(4) \o <<" ">> \o Stars(6) \o <<" ">>
                           \o visible_part(clean, visible_digits)
             ELSE IF length = 16
                  THEN Stars(4) \o <<" ">> \o Stars(4) \o <<" ">> \o Stars(4)
                           \o <<" ">> \o visible_part(clean, visible_digits)
             ELSE Join(masked_groups(clean, 0, length - visible_digits), <<" ">>)

MaxFmtLen == 20

MaxShortLen == 4

MaxVisible == 6

DefaultVisible == 4

\* the digits 1, 2, 3, ... 9, 0, 1, ... : a number whose order shows
Counting(n) == [i \in 1..n |-> DigitChar(i % 10)]

PresentNumbers ==
    {Counting(n) : n \in 0..MaxFmtLen}
        \cup {Grouped(Counting(n), sep) : n \in 0..MaxFmtLen, sep \in {" ", "-"}}
        \cup SeqsUpTo({"1", "2", "-"}, MaxShortLen)
        \cup {Visa16, Amex15, Diners14, None}

\* arg is (card_number, separator, visible_digits)
InitPresent ==
    /\ pc = "start"
    /\ arg \in PresentNumbers \X {<<" ">>, <<"-">>, <<>>} \X (0..MaxVisible)
    /\ today = NoDate
    /\ card_string = <<>>
    /\ tokens = AbsentDraw
    /\ self = NoSelf
    /\ raised = NoExc
    /\ call = ""
    /\ ret = <<>>

\* result = format_card_number(card_number, separator)
FormatCardNumber ==
    /\ pc = "start"
    /\ ret' = format_card_number(arg[1], arg[2])
    /\ pc' = "done"
    /\ call' = "format_card_number"
    /\ UNCHANGED <<card_string, tokens, self, raised, arg, today>>

\* result = format_card_number(result, separator)
Reformat ==
    /\ pc = "done" /\ call = "format_card_number"
    /\ ret' = format_card_number(ret, arg[2])
    /\ pc' = "again"
    /\ UNCHANGED <<card_string, tokens, self, raised, call, arg, today>>

\* result = mask_card_number(card_number, visible_digits)
MaskCardNumber ==
    /\ pc = "start"
    /\ ret' = mask_card_number(arg[1], arg[3])
    /\ pc' = "done"
    /\ call' = "mask_card_number"
    /\ UNCHANGED <<card_string, tokens, self, raised, arg, today>>

NextPresent == FormatCardNumber \/ Reformat \/ MaskCardNumber

SpecPresent == InitPresent /\ [][NextPresent]_vars

(***************************************************************************)
(* Claims about the formatter.                                             *)
(***************************************************************************)
\* the group sizes for n digits: 4-6-5, 4-6-4, or fours with a shorter last
RefSizes(n) ==
    IF n = 15 THEN <<4, 6, 5>>
    ELSE IF n = 14 THEN <<4, 6, 4>>
    ELSE [i \in 1..((n + 3) \div 4) |-> IF 4 * i <= n THEN 4 ELSE n - 4 * (i - 1)]

\* the characters of s laid out in groups of the given sizes, sep between
RECURSIVE RefLayout(_, _, _)
RefLayout(s, sizes, sep) ==
    IF Len(sizes) = 0 THEN <<>>
    ELSE IF Len(sizes) = 1 THEN s
         ELSE SubSeq(s, 1, sizes[1]) \o sep
                  \o RefLayout(SubSeq(s, sizes[1] + 1, Len(s)), Tail(sizes), sep)

InputDigits == IF arg[1] = None THEN <<>> ELSE DigitsOnly(arg[1])

Formatted == pc = "done" /\ call = "format_card_number"

Masked == pc = "done" /\ call = "mask_card_number"

C18_Idempotent ==
    (call = "format_card_number" /\ isdigit(arg[1]) /\ arg[2] = <<" ">>) =>
        /\ pc = "again" => ret = format_card_number(arg[1], arg[2])
        /\ pc = "done" => format_card_number(DigitsOnly(ret), arg[2]) = ret

C18_Witness ==
    /\ pc = "again" /\ call = "format_card_number"
    /\ arg[1] = Amex15 /\ arg[2] = <<" ">>
    /\ Len(ret) = 17

\* every character of N but the last v replaced by a star
RefMaskedChars(N, v) ==
    [i \in 1..Len(N) |-> IF i <= Len(N) - v THEN "*" ELSE N[i]]

LastFour == SliceLast(arg[1], 4)

\* C19: with the default visible count of 4, a digit string N with last
\* four digits V masks to '**** ****** *'+V at 15 digits, '**** ****** '+V
\* at 14, '**** **** **** '+V at 16 and, at every other length of at least
\* 4, to space-joined chunks of four in which the chunks before the visible
\* digits are stars, the boundary chunk is stars directly followed by
\* visible digits and the later chunks are in clear.
C19_MaskPatterns ==
    (Masked /\ isdigit(arg[1]) /\ Len(arg[1]) >= 4 /\ arg[3] = DefaultVisible) =>
        /\ ret = RefLayout(RefMaskedChars(arg[1], 4), RefSizes(Len(arg[1])), <<" ">>)
        /\ Len(arg[1]) = 15 =>
               ret = <<"*","*","*","*"," ","*","*","*","*","*","*"," ","*">> \o LastFour
        /\ Len(arg[1]) = 14 =>
               ret = <<"*","*","*","*"," ","*","*","*","*","*","*"," ">> \o LastFour
        /\ Len(arg[1]) = 16 =>
               ret = <<"*","*","*","*"," ","*","*","*","*"," ","*","*","*","*"," ">>
                         \o LastFour
        /\ Len(arg[1]) = 12 =>
               ret = <<"*","*","*","*"," ","*","*","*","*"," ">> \o LastFour

C19_Witness ==
    /\ Masked /\ arg[1] = Counting(10) /\ arg[3] = DefaultVisible
    /\ ret = <<"*","*","*","*"," ","*","*","7","8"," ","9","0">>

NonSeparators(s) == SelectSeq(s, LAMBDA c : c # " ")

LastOf(s, k) == SubSeq(s, Len(s) - k + 1, Len(s))

\* C20: for a digit string N and a visible count v, when N has at least v
\* digits the last v non-separator characters of the mask are the last v
\* digits of N, and when N has fewer than v digits the mask is N itself.
C20_MaskSuffix ==
    (Masked /\ isdigit(arg[1])) =>
        /\ Len(arg[1]) >= arg[3] =>
               /\ Len(NonSeparators(ret)) >= arg[3]
               /\ LastOf(NonSeparators(ret), arg[3]) = LastOf(arg[1], arg[3])
        /\ Len(arg[1]) < arg[3] => ret = arg[1]

C20_Witness ==
    /\ Masked /\ arg[1] = Visa16 /\ arg[3] = 6
    /\ LastOf(ret, 6) = LastOf(Visa16, 6)

StarsOnly(s) == SelectSeq(s, LAMBDA c : c = "*")

\* C21: for a digit string N and a visible count v with 0 <= v <= len(N),
\* the mask of N holds exactly v digit characters and exactly len(N) - v
\* stars, at every length of N and for every v.
C21_MaskCounts ==
    (Masked /\ isdigit(arg[1]) /\ arg[3] <= Len(arg[1])) =>
        /\ Len(DigitsOnly(ret)) = arg[3]
        /\ Len(StarsOnly(ret)) = Len(arg[1]) - arg[3]

(***************************************************************************)
(* The values of the CCParser queries on a record, and cli.main.  What     *)
(* main prints is a sequence of (label, value) pairs; a value is a         *)
(* sequence of characters, or a one-element sequence holding a word.       *)
(***************************************************************************)
\* the object the constructor leaves for the fields f
Record(s, f) ==
    [card_string |-> strip(s), card_number |-> f[1], expiry_month |-> f[2],
     expiry_year |-> f[3], cvv |-> f[4]]

\* get_formatted_number()
formatted_number(obj) == format_card_number(obj.card_number, <<" ">>)

\* get_masked_number()
masked_number(obj) == mask_card_number(obj.card_number, DefaultVisible)

\* get_expiry(): MM/YY
expiry(obj) ==
    obj.expiry_month \o <<"/">> \o SubSeq(obj.expiry_year, 3, Len(obj.expiry_year))

\* get_card_type()
card_type(obj) == detect_card_type(obj.card_number)

\* str(True), str(False)
PyStrBool(b) == IF b THEN <<"True">> ELSE <<"False">>

\* json.dumps(True), json.dumps(False)
JsonBool(b) == IF b THEN <<"true">> ELSE <<"false">>

\* to_dict(), its keys in the order of the literal
to_dict(obj, now) ==
    << <<"number", obj.card_number>>,
       <<"formatted_number", formatted_number(obj)>>,
       <<"masked_number", masked_number(obj)>>,
       <<"expiry", expiry(obj)>>,
       <<"expiry_month", obj.expiry_month>>,
       <<"expiry_year", obj.expiry_year>>,
       <<"cvv", obj.cvv>>,
       <<"card_type", <<card_type(obj)>> >>,
       <<"is_valid", JsonBool(is_valid(obj, now))>> >>

CCParserErrors ==
    {"InvalidCardNumberError", "InvalidExpiryDateError", "InvalidCVVError"}

\* what a run of main leaves: exit code, stdout, stderr, escaping exception
Exit(code, out, err) == [code |-> code, stdout |-> out, stderr |-> err, exc |-> ""]

\* the body of the try block once the record is constructed
main_body(obj, args, now) ==
    IF args.quiet THEN Exit(IF is_valid(obj, now) THEN 0 ELSE 1, <<>>, <<>>)
    ELSE IF args.json_output
         THEN Exit(0,
                   IF args.masked
                   THEN [to_dict(obj, now) EXCEPT ![1] = <<"number", masked_number(obj)>>]
                   ELSE to_dict(obj, now),
                   <<>>)
    ELSE Exit(IF is_valid(obj, now) THEN 0 ELSE 1,
              << <<"Card Number: ",
                   IF args.masked THEN masked_number(obj) ELSE formatted_number(obj)>>,
                 <<"Expiry Date: ", expiry(obj)>>,
                 <<"CVV: ", obj.cvv>>,
                 <<"Card Type: ", <<card_type(obj)>> >>,
                 <<"Valid: ", PyStrBool(is_valid(obj, now))>> >>,
              <<>>)

\* the two except clauses; in the second, print() is handed indent=2 and
\* raises TypeError out of main
main_except(r, args) ==
    IF r.exc \in CCParserErrors
    THEN IF args.quiet THEN Exit(1, <<>>, <<>>)
         ELSE IF args.json_output THEN Exit(1, << <<"error", <<r.msg>> >> >>, <<>>)
         ELSE Exit(1, <<>>, << <<"Error: ", <<r.msg>> >> >>)
    ELSE IF args.quiet THEN Exit(1, <<>>, <<>>)
         ELSE IF args.json_output
              THEN [code |-> 1, stdout |-> <<>>, stderr |-> <<>>, exc |-> "TypeError"]
         ELSE Exit(1, <<>>, << <<"Unexpected error: ", <<r.msg>> >> >>)

\* main() for the parsed command line args
main(s, args, now) ==
    LET r == CCParserInit(s)
    IN  IF r.ok THEN main_body(Record(s, r.f), args, now)
        ELSE main_except(r, args)

CliArgs == [masked : BOOLEAN, json_output : BOOLEAN, quiet : BOOLEAN]

\* command lines: records in the pipe and slash layouts, short numbers,
\* and strings the constructor rejects
CliDraws ==
    {Draw(<<>>, n, <<"|">>, m, d2, y, <<"|">>, c, <<>>) :
        n \in {Visa16, Visa16BadLuhn, Amex15, Diners14, <<"1", "2", "3", "4">>,
               <<"4", "1", "a", "1">>},
        m \in {<<"1", "2">>, <<"1", "3">>},
        d2 \in {<<"|">>, <<"/">>},
        y \in {Decimal(ThisYear + 1), Decimal(ThisYear - 1), <<"3">>},
        c \in {<<"1", "2", "3">>, <<"1", "2", "3", "4">>, <<"1", "x", "3">>}}
        \cup {Draw(<<>>, <<"i", "n", "v", "a", "l", "i", "d">>, <<>>, <<>>, <<>>,
                   <<>>, <<>>, <<>>, <<>>)}

InitCli ==
    /\ pc = "start"
    /\ tokens \in CliDraws
    /\ card_string = Render(tokens)
    /\ arg \in CliArgs
    /\ today \in {dt \in Dates : dt[3] = 1 /\ dt[2] \in {1, 12}}
    /\ self = NoSelf
    /\ raised = NoExc
    /\ call = ""
    /\ ret = Exit(0, <<>>, <<>>)

\* sys.exit(main())
Main ==
    /\ pc = "start"
    /\ pc' = "exited"
    /\ call' = "main"
    /\ ret' = main(card_string, arg, today)
    /\ UNCHANGED <<card_string, tokens, self, raised, arg, today>>

NextCli == Main

SpecCli == InitCli /\ [][NextCli]_vars

Parsed == CCParserInit(card_string).ok

ParsedRecord == Record(card_string, CCParserInit(card_string).f)

\* C22: in every output mode the exit code is 0 exactly when the input
\* parsed and the record is valid, and non-zero when construction failed
\* or is_valid() is False.
C22_ExitCodes ==
    pc = "exited" =>
        (ret.code = 0 <=> (Parsed /\ is_valid(ParsedRecord, today)))

\* t occurs in s as a run of consecutive characters
HasSubstring(s, t) ==
    \E i \in 0..(Len(s) - Len(t)) : SubSeq(s, i + 1, i + Len(t)) = t

\* C23: when --masked is given and the input parses, no value written to
\* stdout contains the full card number, as raw digits or grouped, in the
\* text output and in the JSON output.
C23_MaskedNoLeak ==
    (pc = "exited" /\ arg.masked /\ Parsed) =>
        \A k \in 1..Len(ret.stdout) :
            /\ ~HasSubstring(ret.stdout[k][2], ParsedRecord.card_number)
            /\ ~HasSubstring(ret.stdout[k][2], formatted_number(ParsedRecord))

(***************************************************************************)
(* generator.generate_card_number and its Luhn check digit.                *)
(***************************************************************************)
\* the keys of CARD_PREFIXES
SupportedTypes ==
    {"Visa", "MasterCard", "AMEX", "Discover", "JCB", "Diners Club", "UnionPay"}

CARD_PREFIXES(t) ==
    CASE t = "Visa" -> {<<"4">>}
      [] t = "MasterCard" ->
            {<<"5", "1">>, <<"5", "2">>, <<"5", "3">>, <<"5", "4">>, <<"5", "5">>}
      [] t = "AMEX" -> {<<"3", "4">>, <<"3", "7">>}
      [] t = "Discover" ->
            {<<"6", "0", "1", "1">>, <<"6", "4", "4">>, <<"6", "4", "5">>,
             <<"6", "4", "6">>, <<"6", "4", "7">>, <<"6", "4", "8">>,
             <<"6", "4", "9">>, <<"6", "5">>}
      [] t = "JCB" ->
            {<<"3", "5", "2", "8">>, <<"3", "5", "2", "9">>, <<"3", "5", "3">>,
             <<"3", "5", "4">>, <<"3", "5", "5">>, <<"3", "5", "6">>,
             <<"3", "5", "7">>, <<"3", "5", "8">>}
      [] t = "Diners Club" ->
            {<<"3", "0", "0">>, <<"3", "0", "1">>, <<"3", "0", "2">>,
             <<"3", "0", "3">>, <<"3", "0", "4">>, <<"3", "0", "5">>,
             <<"3", "6">>, <<"3", "8">>}
      [] t = "UnionPay" -> {<<"6", "2">>}

CARD_LENGTHS(t) ==
    CASE t = "AMEX" -> 15
      [] t = "Diners Club" -> 14
      [] t \in {"Visa", "MasterCard", "Discover", "JCB", "UnionPay"} -> 16

\* the loop over enumerate(reversed_digits) from index i on
RECURSIVE check_total(_, _)
check_total(reversed_digits, i) ==
    IF i >= Len(reversed_digits) THEN 0
    ELSE LET digit_value == DigitVal(reversed_digits[i + 1])
             doubled == IF 2 * digit_value > 9 THEN 2 * digit_value - 9
                        ELSE 2 * digit_value
         IN  (IF i % 2 = 0 THEN doubled ELSE digit_value)
                 + check_total(reversed_digits, i + 1)

\* number[::-1]
Reversed(s) == [i \in 1..Len(s) |-> s[Len(s) + 1 - i]]

\* the digit that leaves the total unchanged modulo 10
_calculate_luhn_check_digit_plain(number) ==
    check_total(Reversed(number), 0) % 10

_calculate_luhn_check_digit(number) ==
    (10 - (check_total(Reversed(number), 0) % 10)) % 10

\* the outcomes of random.randint(0, 9) that are drawn
RandomDigits == {"0", "7"}

MaxPartialLen == 3

GeneratorTypes == SupportedTypes \cup {"InvalidType", "visa"}

\* arg is ("generate", card_type) or ("check_digit", number)
InitGenerate ==
    /\ pc = "start"
    /\ \/ \E t \in GeneratorTypes : arg = <<"generate", t>>
       \/ \E n \in SeqsUpTo(Digits, MaxPartialLen) \ {<<>>} :
              arg = <<"check_digit", n>>
    /\ today = NoDate
    /\ card_string = <<>>
    /\ tokens = AbsentDraw
    /\ self = NoSelf
    /\ raised = NoExc
    /\ call = ""
    /\ ret = <<>>

\* the membership test and prefix = random.choice(CARD_PREFIXES[card_type])
ChoosePrefix ==
    /\ pc = "start" /\ arg[1] = "generate"
    /\ call' = "generate_card_number"
    /\ IF arg[2] \notin SupportedTypes
       THEN /\ pc' = "failed"
            /\ raised' = [exc |-> "ValueError", msg |-> "Unsupported card type"]
            /\ ret' = ret
       ELSE /\ pc' = "filling"
            /\ raised' = raised
            /\ \E prefix \in CARD_PREFIXES(arg[2]) : ret' = prefix
    /\ UNCHANGED <<card_string, tokens, self, arg, today>>

\* number += str(random.randint(0, 9)) while len(number) < length - 1
AppendRandomDigit ==
    /\ pc = "filling"
    /\ Len(ret) < CARD_LENGTHS(arg[2]) - 1
    /\ \E d \in RandomDigits : ret' = ret \o <<d>>
    /\ UNCHANGED <<pc, card_string, tokens, self, raised, call, arg, today>>

\* return number + str(check_digit)
AppendCheckDigit ==
    /\ pc = "filling"
    /\ ~(Len(ret) < CARD_LENGTHS(arg[2]) - 1)
    /\ ret' = ret \o <<DigitChar(_calculate_luhn_check_digit(ret))>>
    /\ pc' = "done"
    /\ UNCHANGED <<card_string, tokens, self, raised, call, arg, today>>

\* _calculate_luhn_check_digit(number) on its own
CalculateCheckDigit ==
    /\ pc = "start" /\ arg[1] = "check_digit"
    /\ call' = "_calculate_luhn_check_digit"
    /\ ret' = <<DigitChar(_calculate_luhn_check_digit(arg[2]))>>
    /\ pc' = "done"
    /\ UNCHANGED <<card_string, tokens, self, raised, arg, today>>

NextGenerate ==
    ChoosePrefix \/ AppendRandomDigit \/ AppendCheckDigit \/ CalculateCheckDigit

SpecGenerate == InitGenerate /\ [][NextGenerate]_vars

\* the length the claim gives for a card type
RefCardLength(t) == IF t = "AMEX" THEN 15 ELSE IF t = "Diners Club" THEN 14 ELSE 16

\* C24: a generated number of a supported type T is a digit string of T's
\* length that passes validate_card_number and that detect_card_type gives
\* T for; the check digit of a non-empty digit string P is the only digit d
\* making P+d Luhn-valid; an unsupported type raises ValueError.
C24_GeneratorCorrect ==
    /\ (pc = "done" /\ call = "generate_card_number") =>
           /\ arg[2] \in SupportedTypes
           /\ isdigit(ret)
           /\ Len(ret) = RefCardLength(arg[2])
           /\ validate_card_number(ret) = Returns(TRUE)
           /\ detect_card_type(ret) = arg[2]
    /\ (pc = "done" /\ call = "_calculate_luhn_check_digit") =>
           \A d \in Digits :
               validate_card_number(arg[2] \o <<d>>) = Returns(<<d>> = ret)
    /\ (pc # "start" /\ arg[1] = "generate" /\ arg[2] \notin SupportedTypes) =>
           pc = "failed" /\ raised.exc = "ValueError"

C24_Witness ==
    /\ pc = "done" /\ arg = <<"generate", "Discover">>
    /\ SubSeq(ret, 1, 3) = <<"6", "4", "7">>
    /\ Contains(ret, "7") /\ Len(ret) = 16

(***************************************************************************)
(* utils.get_card_details.  The answer of the lookup service is an input:  *)
(* whether `requests` is importable, an exception of requests.get or a     *)
(* status code, and the body.  A JSON value is given by its kind.          *)
(***************************************************************************)
\* kinds of JSON value; "absent" is a key the object does not have
JsonKinds ==
    {"absent", "null", "object", "empty_object", "string", "empty_string",
     "list", "number"}

\* bool(v) for a value of the kind; dict.get gives None for an absent key
JsonTruthy(kind) == kind \in {"object", "string", "list", "number"}

\* whether v.get exists: only a dict has it
HasGet(kind) == kind \in {"object", "empty_object"}

\* data.get(key, {}).get(...) if data.get(key) else default
NestedGet(kind) ==
    IF ~JsonTruthy(kind) THEN Returns("default")
    ELSE IF HasGet(kind) THEN Returns("value")
    ELSE Throws("AttributeError")

\* the body of an answer: not JSON, a JSON value that is not an object, or
\* an object with its 'bank', 'country' and 'type' members
Bodies ==
    [json : {FALSE}, data : {"none"}, bank : {"absent"}, country : {"absent"},
     type : {"absent"}]
        \cup [json : {TRUE}, data : {"null", "list", "string", "number"},
              bank : {"absent"}, country : {"absent"}, type : {"absent"}]
        \cup [json : {TRUE}, data : {"object"}, bank : JsonKinds,
              country : JsonKinds, type : {"absent", "credit", "debit"}]

\* the outcomes of requests.get
Responses ==
    [exc : {"Timeout", "ConnectionError", "RequestException"}, status : {0},
     body : {CHOOSE b \in Bodies : ~b.json}]
        \cup [exc : {""}, status : {200, 301, 404, 429, 500}, body : Bodies]

\* what the call leaves: value, exception, whether requests.get was called
Looked(val, exc, requested) == [val |-> val, exc |-> exc, requested |-> requested]

\* the dictionary built at status 200, by the origin of its members
card_details(body) ==
    IF ~body.json THEN Looked(None, "", TRUE)
    ELSE IF body.data # "object" THEN Looked(None, "AttributeError", TRUE)
    ELSE IF NestedGet(body.bank).exc # "" THEN Looked(None, "AttributeError", TRUE)
    ELSE IF NestedGet(body.country).exc # "" THEN Looked(None, "AttributeError", TRUE)
    ELSE Looked([bank |-> NestedGet(body.bank).val,
                 country |-> NestedGet(body.country).val,
                 bin |-> IF body.type = "credit" THEN "Credit" ELSE "Debit"],
                "", TRUE)

get_card_details(card_number, installed, response) ==
    IF ~installed THEN Looked(None, "ImportError", FALSE)
    ELSE IF ~Truthy(card_number) \/ Len(card_number) < 6
         THEN Looked(None, "", FALSE)
    ELSE IF response.exc # "" THEN Looked(None, "", TRUE)
    ELSE IF response.status = 200 THEN card_details(response.body)
    ELSE Looked(None, "", TRUE)

LookupNumbers ==
    {Visa16, Amex15, None, <<>>, <<"1", "2", "3", "4", "5">>,
     <<"1", "2", "3", "4", "-", "5">>, <<"4", "1", "1", "1", "1", "1">>}

\* arg is (card_number, requests importable, answer of the service)
InitLookup ==
    /\ pc = "start"
    /\ \E n \in LookupNumbers, i \in BOOLEAN, r \in Responses : arg = <<n, i, r>>
    /\ today = NoDate
    /\ card_string = <<>>
    /\ tokens = AbsentDraw
    /\ self = NoSelf
    /\ raised = NoExc
    /\ call = ""
    /\ ret = Looked(None, "", FALSE)

\* details = get_card_details(card_number)
GetCardDetails ==
    /\ pc = "start"
    /\ pc' = "done"
    /\ call' = "get_card_details"
    /\ ret' = get_card_details(arg[1], arg[2], arg[3])
    /\ raised' = [exc |-> ret'.exc, msg |-> ""]
    /\ UNCHANGED <<card_string, tokens, self, arg, today>>

NextLookup == GetCardDetails

SpecLookup == InitLookup /\ [][NextLookup]_vars

\* the lookup failed: an exception of the request, a status other than 200,
\* a body that is not JSON, a JSON body that is not an object, or an object
\* whose 'bank' or 'country' is neither an object nor null nor absent
LookupFailed ==
    LET r == arg[3]
    IN  \/ r.exc # ""
        \/ r.status # 200
        \/ ~r.body.json
        \/ r.body.data # "object"
        \/ r.body.bank \in {"string", "list", "number"}
        \/ r.body.country \in {"string", "list", "number"}

DigitCount(n) == IF n = None THEN 0 ELSE Len(DigitsOnly(n))

\* C25: with `requests` importable, every failure of the lookup gives None
\* and no exception, and a card number of fewer than 6 digits gives None
\* without a request being made.
C25_LookupDegrades ==
    (pc = "done" /\ arg[2]) =>
        /\ LookupFailed => ret.val = None /\ ret.exc = ""
        /\ DigitCount(arg[1]) < 6 => ret.val = None /\ ~ret.requested

(***************************************************************************)
(* Every method of a constructed record, called in any order.              *)
(***************************************************************************)
get_formatted_number == Query("get_formatted_number", formatted_number(self))

get_masked_number == Query("get_masked_number", masked_number(self))

get_card_type == Query("get_card_type", <<card_type(self)>>)

\* card.to_dict()
ToDict == Query("to_dict", to_dict(self, today))

\* repr(card): CCParser(type=..., masked=...)
Repr == Query("__repr__", <<"CCParser", <<card_type(self)>>, masked_number(self)>>)

\* str(card): type, masked number, (exp: MM/YY)
Str == Query("__str__", << <<card_type(self)>>, masked_number(self), expiry(self)>>)

QueryDraws ==
    {Draw(<<>>, n, <<"|">>, m, <<"|">>, y, <<"|">>, c, <<>>) :
        n \in {Visa16, Visa16BadLuhn, Amex15, <<"1", "2", "3", "4">>},
        m \in {<<"1">>, <<"1", "2">>, <<"1", "3">>},
        y \in {Decimal(ThisYear + 1), Format02d((ThisYear - 1) % 100), <<"a", "b">>},
        c \in {<<"1", "2", "3">>, <<"1", "2", "3", "4">>}}

InitQueries ==
    /\ pc = "start"
    /\ tokens \in QueryDraws
    /\ card_string = Render(tokens)
    /\ today \in {dt \in Dates : dt[3] = 1 /\ dt[2] \in {1, 12}}
    /\ self = NoSelf
    /\ raised = NoExc
    /\ call = ""
    /\ arg = <<>>
    /\ ret = <<>>

NextQueries ==
    \/ Construct
    \/ get_number
    \/ get_formatted_number
    \/ get_masked_number
    \/ get_expiry
    \/ get_expiry_full
    \/ get_month
    \/ get_year
    \/ get_cvv
    \/ get_card_type
    \/ IsValid
    \/ Validate
    \/ ToDict
    \/ Repr
    \/ Str

SpecQueries == InitQueries /\ [][NextQueries]_vars

\* the record as the constructor left it
Constructed == Record(card_string, CCParserInit(card_string).f)

\* the result of a query on the record as constructed, at the current date
RefResult(name) ==
    LET c == Constructed
    IN  CASE name = "get_number" -> c.card_number
          [] name = "get_formatted_number" -> format_card_number(c.card_number, <<" ">>)
          [] name = "get_masked_number" -> mask_card_number(c.card_number, 4)
          [] name = "get_expiry" ->
                c.expiry_month \o <<"/">> \o SubSeq(c.expiry_year, 3, 4)
          [] name = "get_expiry_full" -> c.expiry_month \o <<"/">> \o c.expiry_year
          [] name = "get_month" -> c.expiry_month
          [] name = "get_year" -> c.expiry_year
          [] name = "get_cvv" -> c.cvv
          [] name = "get_card_type" -> <<detect_card_type(c.card_number)>>
          [] name = "is_valid" -> is_valid(c, today)
          [] name = "validate" -> None
          [] name = "to_dict" -> to_dict(c, today)
          [] name = "__repr__" ->
                <<"CCParser", <<detect_card_type(c.card_number)>>,
                  mask_card_number(c.card_number, 4)>>
          [] name = "__str__" ->
                << <<detect_card_type(c.card_number)>>,
                   mask_card_number(c.card_number, 4),
                   c.expiry_month \o <<"/">> \o SubSeq(c.expiry_year, 3, 4)>>

\* C26: after any sequence of method calls the four fields of a record are
\* those set at construction, and with a fixed current date each query
\* gives the result it gives on the record as constructed, on every call.
C26_Immutable ==
    pc = "constructed" =>
        /\ self = Constructed
        /\ call # "CCParser" => ret = RefResult(call)
        /\ call = "validate" => raised = validate(Constructed, today)

C26_Witness ==
    /\ pc = "constructed" /\ call = "__str__"
    /\ raised.exc = "InvalidCVVError"
    /\ self.card_number = Amex15

(***************************************************************************)
(* The order of the constructor's checks (checked under SpecParse).        *)
(***************************************************************************)
\* the tokens of the input: none for None and for a blank string
ErrTokens == IF Truthy(card_string) THEN Parts(strip(card_string)) ELSE <<>>

CountOf(s, c) == Len(SelectSeq(s, LAMBDA x : x = c))

\* the separator of a combined expiry token: '/' if it has one, else '-'
ErrSep == IF CountOf(ErrTokens[2], "/") > 0 THEN "/" ELSE "-"

ErrSepAt == CHOOSE i \in 1..Len(ErrTokens[2]) : ErrTokens[2][i] = ErrSep

ErrMonthTok ==
    IF Len(ErrTokens) = 4 THEN ErrTokens[2]
    ELSE SubSeq(ErrTokens[2], 1, ErrSepAt - 1)

ErrYearTok ==
    IF Len(ErrTokens) = 4 THEN ErrTokens[3]
    ELSE SubSeq(ErrTokens[2], ErrSepAt + 1, Len(ErrTokens[2]))

ErrCvvTok == ErrTokens[Len(ErrTokens)]

\* the exception of the first failing check in the fixed order, "" if none
FirstFailure ==
    IF Len(ErrTokens) \notin {3, 4} THEN "InvalidCardNumberError"
    ELSE IF Len(ErrTokens) = 3 /\ CountOf(ErrTokens[2], ErrSep) # 1
         THEN "InvalidExpiryDateError"
    ELSE IF ~PyInt(ErrMonthTok).ok \/ PyInt(ErrMonthTok).val \notin 1..12
         THEN "InvalidExpiryDateError"
    ELSE IF Len(ErrYearTok) \notin {2, 4} THEN "InvalidExpiryDateError"
    ELSE IF ~isdigit(ErrTokens[1]) THEN "InvalidCardNumberError"
    ELSE IF ~isdigit(ErrCvvTok) THEN "InvalidCVVError"
    ELSE ""

\* C27: construction gives a record with its four fields set or raises one
\* of the CCParserError subclasses, and the error is that of the first
\* failing check in the order token count, combined-expiry shape, month,
\* year length, number digits, CVV digits.
C27_ErrorPrecedence ==
    pc # "start" =>
        /\ pc \in {"constructed", "failed"}
        /\ pc = "constructed" =>
               /\ FirstFailure = ""
               /\ \A i \in 1..4 : Fields[i] # <<>>
        /\ pc = "failed" =>
               /\ raised.exc \in CCParserErrors
               /\ raised.exc = FirstFailure

C27_Witness ==
    /\ pc = "failed" /\ raised.exc = "InvalidExpiryDateError"
    /\ Len(ErrTokens) = 4
    /\ ErrTokens[1] = <<"4", "1", "a", "1">> /\ ErrTokens[2] = <<"1", "3">>

(***************************************************************************)
(* The issuer patterns against each other (checked under SpecDetect).      *)
(***************************************************************************)
\* the entries of CARD_TYPE_PATTERNS that match the argument
MatchingEntries == {i \in 1..Len(CARD_TYPES) : Matches(CARD_TYPES[i], arg)}

\* C28: no digit string matches more than one of the seven patterns, so
\* detect_card_type gives the one matching type whatever the order in which
\* the patterns are tried.
C28_PatternsDisjoint ==
    (pc = "done" /\ isdigit(arg)) =>
        \A i \in 1..Len(CARD_TYPES) :
            Matches(CARD_TYPES[i], arg) =>
                /\ ret = CARD_TYPES[i]
                /\ \A j \in 1..Len(CARD_TYPES) :
                       j # i => ~Matches(CARD_TYPES[j], arg)

C28_Witness ==
    /\ pc = "done" /\ ret = "UnionPay" /\ isdigit(arg) /\ Len(arg) = 16
    /\ MatchingEntries = {7}

(***************************************************************************)
(* Single-digit errors (checked under SpecLuhn).                           *)
(***************************************************************************)
\* the digit strings that differ from N at exactly one position
OneDigitChanged(N) ==
    {[N EXCEPT ![i] = d] : i \in 1..Len(N), d \in Digits} \ {N}

\* the value a digit contributes at a doubled position
DoubledValue(d) == Sum(digits_of_int(2 * d))

\* C29: when validate_card_number accepts a digit string, it rejects every
\* string obtained by replacing one of its digits by a different digit; the
\* doubled-and-adjusted map on 0..9 is one-to-one.
C29_SingleDigitErrors ==
    /\ Cardinality({DoubledValue(d) : d \in 0..9}) = 10
    /\ (pc = "done" /\ isdigit(arg) /\ ret = TRUE) =>
           \A M \in OneDigitChanged(arg) : validate_card_number(M) = Returns(FALSE)

C29_Witness ==
    /\ pc = "done" /\ ret = TRUE /\ Len(arg) = 16 /\ arg[1] = "5"
    /\ Cardinality(OneDigitChanged(arg)) = 144

(***************************************************************************)
(* validate_expiry_date called again and again while the clock that        *)
(* datetime.now() reads moves forward.                                     *)
(***************************************************************************)
\* a number that grows with the date
DayNumber(dt) == (dt[1] * 12 + dt[2]) * 31 + dt[3]

LaterDates(dt) == {d \in Dates : DayNumber(d) > DayNumber(dt)}

\* the first of the dates after dt
NextDate(dt) ==
    CHOOSE d \in LaterDates(dt) :
        \A e \in LaterDates(dt) : DayNumber(e) >= DayNumber(d)

ClockArgs ==
    {<<"0", "1">>, <<"0", "6">>, <<"1", "2">>, <<"1", "3">>}
        \X {Decimal(ThisYear - 1), Decimal(ThisYear), Decimal(ThisYear + 1),
            Format02d(ThisYear % 100), Decimal(ThisYear + WindowFuture + 1),
            <<"Y", "Y", "Y", "Y">>}

InitClock ==
    /\ pc = "start"
    /\ arg \in ClockArgs
    /\ today = <<ThisYear, 1, 1>>
    /\ card_string = <<>>
    /\ tokens = AbsentDraw
    /\ self = NoSelf
    /\ raised = NoExc
    /\ call = ""
    /\ ret = FALSE

\* time passes: datetime.now() gives a later date from now on
AdvanceClock ==
    /\ LaterDates(today) # {}
    /\ today' = NextDate(today)
    /\ pc' = "start"
    /\ UNCHANGED <<card_string, tokens, self, raised, call, arg, ret>>

NextClock == ValidateExpiryDate \/ AdvanceClock

SpecClock == InitClock /\ [][NextClock]_vars

\* the arguments name a month that ended before today
ExpiredNow ==
    /\ Parses(arg[1]) /\ Parses(arg[2])
    /\ RefMonth \in 1..12
    /\ ~NotPastExpiryMonth

Answered(b) == pc = "done" /\ ret = b

\* C30: for fixed arguments and a date that only moves forward, once
\* validate_expiry_date has returned False for an expiry month that ended
\* before today it returns False at every later date, and once a True
\* result has been followed by a False one no later result is True.
C30_ExpiryPermanent ==
    /\ []((Answered(FALSE) /\ ExpiredNow) => [](pc = "done" => ret = FALSE))
    /\ [](Answered(TRUE) => [](Answered(FALSE) => [](pc = "done" => ret = FALSE)))

C30_Witness ==
    /\ Answered(FALSE) /\ ExpiredNow
    /\ RefYear = ThisYear /\ RefMonth = 12
    /\ today[1] = ThisYear + 1 /\ today[2] = 6

====
